---- MODULE Spec2Model ----
(***************************************************************************)
(* Quote cache, tiered fetcher and the two JSON routes of app.py.          *)
(*                                                                         *)
(* Money is counted in cents (420.0 is 42000, 22.10 is 2210), so that the  *)
(* arithmetic of the routes stays within the integers.  A value that may   *)
(* be Python's None is a sequence of length 0 (None) or 1 (Some(x)).       *)
(* A call of get_price is a sequence of steps, one per upstream round      *)
(* trip, so that the clock can advance (and, in the concurrent             *)
(* specification, another thread can run) while a query is in flight.      *)
(***************************************************************************)
EXTENDS Integers, Sequences, FiniteSets, TLC

VARIABLES
    now,        \* time.time() / datetime.utcnow(): the wall clock, in seconds
    _CACHE,     \* the module-level dict _CACHE: ticker -> None | Some(entry)
    file,       \* what is on disk at PORTFOLIO_FILE
    call,       \* per thread: the activation record of get_price
    req,        \* per thread: the activation record of the route being served
    lastPut     \* history: per ticker, the arguments and time of the last put

vars == <<now, _CACHE, file, call, req, lastPut>>

----------------------------------------------------------------------------
(* Bounds of the model *)

MaxTime == 15       \* the clock stops advancing here
TickStep == 5       \* seconds per clock step
MaxSeries == 2      \* rows in a historical series returned by the upstream

----------------------------------------------------------------------------
(* Optional values *)

None == <<>>
Some(x) == <<x>>
The(o) == o[1]

Threads == {1, 2}
Symbols == {"QQQ", "NVDA", "HHIS.TO"}
Prices == {43000, 90000}

----------------------------------------------------------------------------
(* What the upstream provider can answer *)

ObsWalls == {7}
ObsOffsets == {2}

\* A row of a historical frame: its Close, its index (wall time and zone
\* offset), and whether lines 75-77 can convert it (a Close that is no number
\* or an index that cannot be converted makes them raise).
Rows == [close : Prices, wall : ObsWalls, off : ObsOffsets, ok : BOOLEAN]

Frames == UNION {[1..n -> Rows] : n \in 0..MaxSeries}

\* yf.Ticker(t).history(...) raises, returns None, or returns a frame
\* (possibly empty).
HistResponses ==
    {[kind |-> "raise", rows |-> <<>>], [kind |-> "none", rows |-> <<>>]}
        \cup {[kind |-> "frame", rows |-> r] : r \in Frames}

\* yf.Ticker(t).fast_info raises; or it has no last_price attribute; or the
\* attribute is None, is a value float() rejects, or is a price.
InfoResponses ==
    {[kind |-> k, v |-> 0] : k \in {"raise", "noattr", "null", "bad"}}
        \cup {[kind |-> "value", v |-> p] : p \in Prices}

----------------------------------------------------------------------------
(* Quote cache *)

_CACHE_TTL == 10

_cache_get_inclusive(cache, ticker, t) ==
    LET c == cache[ticker]
    IN  IF c # None /\ (t - The(c).t) <= _CACHE_TTL THEN c ELSE None

_cache_get_skip_nodata(cache, ticker, t) ==
    LET c == cache[ticker]
    IN  IF c # None /\ The(c).p # None /\ (t - The(c).t) < _CACHE_TTL
        THEN c ELSE None

_cache_get(cache, ticker, t) ==
    LET c == cache[ticker]
    IN  IF c # None /\ (t - The(c).t) < _CACHE_TTL THEN c ELSE None

_cache_put_sweeping(cache, ticker, price, interval, iso, t) ==
    [s \in DOMAIN cache |->
        IF s = ticker
        THEN Some([p |-> price, i |-> interval, ts |-> iso, t |-> t])
        ELSE IF cache[s] # None /\ (t - The(cache[s]).t) >= _CACHE_TTL
             THEN None ELSE cache[s]]

_cache_put(cache, ticker, price, interval, iso, t) ==
    [cache EXCEPT ![ticker] =
        Some([p |-> price, i |-> interval, ts |-> iso, t |-> t])]

----------------------------------------------------------------------------
(* Tiered fetcher *)

Triple(price, interval, iso) == [p |-> price, i |-> interval, ts |-> iso]
NoData == Triple(None, None, None)

Return(v) == [kind |-> "return", val |-> v]
Raise == [kind |-> "raise", val |-> NoData]

\* ts.tz_convert(timezone.utc): the same instant, read on the UTC clock.
tz_convert(row) == [wall |-> row.wall - row.off, off |-> 0]

\* isoformat() of an aware timestamp: the clock reading and the zone.
isoformat(ts) == [clock |-> ts.wall, zone |-> ts.off]

TIERS_swapped ==
    << [period |-> "5d", interval |-> "1h"],
       [period |-> "1d", interval |-> "1m"],
       [period |-> "1mo", interval |-> "1d"] >>

TIERS ==
    << [period |-> "1d", interval |-> "1m"],
       [period |-> "5d", interval |-> "1h"],
       [period |-> "1mo", interval |-> "1d"] >>

_hist_try_first_row(hist, interval) ==
    IF hist.kind = "raise" THEN Raise
    ELSE IF hist.kind = "frame" /\ hist.rows # <<>>
         THEN LET last == hist.rows[1]
              IN  IF ~last.ok THEN Raise
                  ELSE Return(Triple(Some(last.close), Some(interval),
                                     Some(isoformat(tz_convert(last)))))
         ELSE Return(NoData)

_hist_try(hist, interval) ==
    IF hist.kind = "raise" THEN Raise
    ELSE IF hist.kind = "frame" /\ hist.rows # <<>>
         THEN LET last == hist.rows[Len(hist.rows)]
              IN  IF ~last.ok THEN Raise
                  ELSE Return(Triple(Some(last.close), Some(interval),
                                     Some(isoformat(tz_convert(last)))))
         ELSE Return(NoData)

\* Lines 99-107: the try block around fast_info.  Some(triple) when it
\* returns from inside the block, None when control falls through to line 109.
fast_info_try_unlabelled(info, t) ==
    IF info.kind = "value"
    THEN Some(Triple(Some(info.v), None,
                     Some(isoformat([wall |-> t, off |-> 0]))))
    ELSE None

fast_info_try(info, t) ==
    IF info.kind = "value"
    THEN Some(Triple(Some(info.v), Some("fast_info"),
                     Some(isoformat([wall |-> t, off |-> 0]))))
    ELSE None

----------------------------------------------------------------------------
(* get_price, one step per upstream round trip *)

IdleCall ==
    [pc |-> "idle", ticker |-> "", k |-> 0, log |-> <<>>, hit |-> FALSE,
     c0 |-> None, t0 |-> 0, ret |-> Raise, t_ret |-> 0]

get_price_begin_locked(th, ticker) ==
    LET c == _cache_get(_CACHE, ticker, now)
        base == [IdleCall EXCEPT !.ticker = ticker, !.c0 = _CACHE[ticker],
                                 !.t0 = now]
    IN  /\ \A other \in Threads \ {th} :
                ~(call[other].pc \in {"hist", "snap"}
                    /\ call[other].ticker = ticker)
        /\ call' = [call EXCEPT ![th] =
                IF c # None
                THEN [base EXCEPT !.pc = "done", !.hit = TRUE, !.t_ret = now,
                        !.ret = Return(Triple(The(c).p, The(c).i, The(c).ts))]
                ELSE [base EXCEPT !.pc = "hist", !.k = 1]]
        /\ UNCHANGED <<now, _CACHE, file, lastPut>>

get_price_begin_touching(th, ticker) ==
    LET c == _cache_get(_CACHE, ticker, now)
        base == [IdleCall EXCEPT !.ticker = ticker, !.c0 = _CACHE[ticker],
                                 !.t0 = now]
    IN  /\ call' = [call EXCEPT ![th] =
                IF c # None
                THEN [base EXCEPT !.pc = "done", !.hit = TRUE, !.t_ret = now,
                        !.ret = Return(Triple(The(c).p, The(c).i, The(c).ts))]
                ELSE [base EXCEPT !.pc = "hist", !.k = 1]]
        /\ _CACHE' = IF c # None
                     THEN [_CACHE EXCEPT ![ticker] = Some([The(c) EXCEPT !.t = now])]
                     ELSE _CACHE
        /\ UNCHANGED <<now, file, lastPut>>

\* Lines 83-85: the cache lookup; a hit returns at once.
get_price_begin(th, ticker) ==
    LET c == _cache_get(_CACHE, ticker, now)
        base == [IdleCall EXCEPT !.ticker = ticker, !.c0 = _CACHE[ticker],
                                 !.t0 = now]
    IN  /\ call' = [call EXCEPT ![th] =
                IF c # None
                THEN [base EXCEPT !.pc = "done", !.hit = TRUE, !.t_ret = now,
                        !.ret = Return(Triple(The(c).p, The(c).i, The(c).ts))]
                ELSE [base EXCEPT !.pc = "hist", !.k = 1]]
        /\ UNCHANGED <<now, _CACHE, file, lastPut>>

\* What the upstream answered to a historical query, as the log of a call
\* records it: it raised, it had nothing (None or an empty frame), it sent a
\* frame whose last row cannot be converted, or it sent a series; and the
\* last row of the frame, if any.  (For the snapshot endpoint: it raised, it
\* had no usable price, or it had a price, kept as the close of a row.)
Answer(hist) ==
    [kind |-> IF hist.kind = "raise" THEN "raise"
              ELSE IF hist.kind = "none" \/ hist.rows = <<>> THEN "empty"
              ELSE IF ~hist.rows[Len(hist.rows)].ok THEN "malformed"
              ELSE "series",
     last |-> IF hist.kind = "frame" /\ hist.rows # <<>>
              THEN Some(hist.rows[Len(hist.rows)]) ELSE None]

\* Lines 88-96: one iteration of the loop over the historical tiers.
get_price_hist(th) ==
    /\ call[th].pc = "hist"
    /\ \E hist \in HistResponses :
        LET me == call[th]
            interval == TIERS[me.k].interval
            r == _hist_try(hist, interval)
            logged == [me EXCEPT !.log = Append(me.log,
                            [tier |-> interval, ans |-> Answer(hist)])]
        IN  IF r.kind = "raise"
            THEN /\ call' = [call EXCEPT ![th] =
                        [logged EXCEPT !.pc = "done", !.ret = Raise,
                                       !.t_ret = now]]
                 /\ UNCHANGED <<_CACHE, lastPut>>
            ELSE IF r.val.p # None
            THEN /\ _CACHE' = _cache_put(_CACHE, me.ticker, r.val.p, r.val.i,
                                         r.val.ts, now)
                 /\ lastPut' = [lastPut EXCEPT ![me.ticker] =
                        Some([p |-> r.val.p, i |-> r.val.i, ts |-> r.val.ts,
                              t |-> now])]
                 /\ call' = [call EXCEPT ![th] =
                        [logged EXCEPT !.pc = "done", !.ret = Return(r.val),
                                       !.t_ret = now]]
            ELSE /\ call' = [call EXCEPT ![th] =
                        IF me.k < Len(TIERS)
                        THEN [logged EXCEPT !.k = me.k + 1]
                        ELSE [logged EXCEPT !.pc = "snap"]]
                 /\ UNCHANGED <<_CACHE, lastPut>>
    /\ UNCHANGED <<now, file, req>>

\* Lines 98-110: the snapshot endpoint, then the no-data result.
get_price_snap(th) ==
    /\ call[th].pc = "snap"
    /\ \E info \in InfoResponses :
        LET me == call[th]
            r == fast_info_try(info, now)
            v == IF r # None THEN The(r) ELSE NoData
            ans == [kind |-> IF info.kind = "value" THEN "price"
                             ELSE IF info.kind = "raise" THEN "raise"
                             ELSE "noprice",
                    last |-> IF info.kind = "value"
                             THEN Some([close |-> info.v, wall |-> now,
                                        off |-> 0, ok |-> TRUE])
                             ELSE None]
        IN  /\ _CACHE' = _cache_put(_CACHE, me.ticker, v.p, v.i, v.ts, now)
            /\ lastPut' = [lastPut EXCEPT ![me.ticker] =
                    Some([p |-> v.p, i |-> v.i, ts |-> v.ts, t |-> now])]
            /\ call' = [call EXCEPT ![th] =
                    [me EXCEPT !.pc = "done", !.ret = Return(v), !.t_ret = now,
                        !.log = Append(me.log,
                            [tier |-> "fast_info", ans |-> ans])]]
    /\ UNCHANGED <<now, file, req>>

----------------------------------------------------------------------------
(* The clock *)

Tick ==
    /\ now + TickStep <= MaxTime
    /\ now' = now + TickStep
    /\ UNCHANGED <<_CACHE, file, call, req, lastPut>>

----------------------------------------------------------------------------
(* Portfolio configuration *)

Holding(ticker, shares, avg_cost) ==
    [ticker |-> ticker, shares |-> shares, avg_cost |-> avg_cost]

DEMO_PORTFOLIOS ==
    [portfolios |-> <<
        [name |-> "Long-Term (USD)", currency |-> "USD",
         holdings |-> << Holding(Some("QQQ"), 10, 42000),
                         Holding(Some("NVDA"), 2, 95000) >>],
        [name |-> "TFSA (CAD)", currency |-> "CAD",
         holdings |-> << Holding(Some("HHIS.TO"), 100, 2210) >>] >>]

\* A portfolios.json of the user: duplicate and blank tickers, a holding
\* without cost, and a portfolio without holdings.
OddPortfolios ==
    << [name |-> "Odd", currency |-> "USD",
        holdings |-> << Holding(Some("QQQ"), 1, 0),
                        Holding(None, 3, 50),
                        Holding(Some("NVDA"), 2, 95000),
                        Holding(Some("QQQ"), 10, 42000) >>],
       [name |-> "Empty", currency |-> "CAD", holdings |-> <<>>] >>

\* What can be on disk: no file; a file json.load() rejects; JSON that is no
\* dict with a "portfolios" key; or such a dict, with its list of portfolios.
Files ==
    {[kind |-> k, portfolios |-> <<>>] : k \in {"missing", "unreadable", "badshape", "data"}}
        \cup {[kind |-> "data", portfolios |-> OddPortfolios]}

load_portfolios(f) ==
    IF f.kind = "missing" THEN DEMO_PORTFOLIOS
    ELSE IF f.kind = "unreadable" THEN DEMO_PORTFOLIOS
    ELSE IF f.kind = "badshape" THEN DEMO_PORTFOLIOS
    ELSE IF f.portfolios = <<>> THEN DEMO_PORTFOLIOS
    ELSE [portfolios |-> f.portfolios]

InSeq(x, seq) == \E n \in 1..Len(seq) : seq[n] = x

\* Lines 122-125 and 158-161: the tickers of one portfolio, appended to acc
\* unless blank or already there.
RECURSIVE collect_holdings(_, _)
collect_holdings(hs, acc) ==
    IF hs = <<>> THEN acc
    ELSE LET t == Head(hs).ticker
         IN  collect_holdings(Tail(hs),
                IF t # None /\ The(t) # "" /\ ~InSeq(The(t), acc)
                THEN Append(acc, The(t)) ELSE acc)

\* Lines 121 and 157: the loop over the portfolios.
RECURSIVE collect_tickers(_, _)
collect_tickers(pfs, acc) ==
    IF pfs = <<>> THEN acc
    ELSE collect_tickers(Tail(pfs), collect_holdings(Head(pfs).holdings, acc))

----------------------------------------------------------------------------
(* /api/quote *)

\* The "tickers" query argument: absent, or the pieces between its commas.
\* The argument is the empty string exactly when its only piece is "".
TickerArgs ==
    {None, Some(<<"">>), Some(<<" ">>), Some(<<"QQQ", " NVDA ">>),
     Some(<<"NVDA", "", "NVDA">>)}

strip(piece) ==
    IF piece = " " THEN ""
    ELSE IF piece = " NVDA " THEN "NVDA"
    ELSE piece

RECURSIVE split_tickers_reversed(_)
split_tickers_reversed(pieces) ==
    IF pieces = <<>> THEN <<>>
    ELSE IF strip(Head(pieces)) # ""
         THEN split_tickers_reversed(Tail(pieces)) \o <<strip(Head(pieces))>>
         ELSE split_tickers_reversed(Tail(pieces))

\* Line 117.
RECURSIVE split_tickers(_)
split_tickers(pieces) ==
    IF pieces = <<>> THEN <<>>
    ELSE IF strip(Head(pieces)) # ""
         THEN <<strip(Head(pieces))>> \o split_tickers(Tail(pieces))
         ELSE split_tickers(Tail(pieces))

\* Lines 115-125: the tickers of the request.
quote_tickers(arg, f) ==
    IF arg # None /\ The(arg) # <<"">>
    THEN split_tickers(The(arg))
    ELSE collect_tickers(load_portfolios(f).portfolios, <<>>)

\* Lines 134-137: the entry of one ticker.
quote_entry(t, v) ==
    IF v.p = None
    THEN [ticker |-> t, error |-> "No data"]
    ELSE [ticker |-> t, price |-> The(v.p), interval |-> v.i, time_utc |-> v.ts]

\* jsonify(list), 200 and jsonify({"error": ..., "detail": ...}), 500: a
\* response is a JSON list (error = "") or the error object.
Ok(body) == [status |-> 200, body |-> body, error |-> ""]
Failed(error) == [status |-> 500, body |-> <<>>, error |-> error]

NoReq ==
    [kind |-> "none", pc |-> "done", arg |-> None, tickers |-> <<>>, idx |-> 0,
     got |-> <<>>, data |-> <<>>, resp |-> [status |-> 0, body |-> <<>>, error |-> ""],
     called |-> <<>>]   \* history: the arguments of its calls of get_price

\* The thread has no request yet: each thread serves one request.
RouteFree(th) == req[th] = NoReq /\ call[th].pc = "idle"

\* Lines 114-129.
api_quote_start(th) ==
    /\ RouteFree(th)
    /\ \E arg \in TickerArgs :
        LET tickers == quote_tickers(arg, file)
        IN  req' = [req EXCEPT ![th] =
                IF tickers = <<>>
                THEN [NoReq EXCEPT !.kind = "quote", !.arg = arg,
                                   !.resp = Ok(<<>>)]
                ELSE [NoReq EXCEPT !.kind = "quote", !.arg = arg,
                                   !.pc = "loop",
                                   !.tickers = tickers, !.idx = 1]]
    /\ UNCHANGED <<now, _CACHE, file, call, lastPut>>

----------------------------------------------------------------------------
(* /api/portfolios *)

\* Lines 146-161.
api_portfolios_start(th) ==
    /\ RouteFree(th)
    /\ LET portfolios == load_portfolios(file).portfolios
       IN  req' = [req EXCEPT ![th] =
                IF portfolios = <<>>
                THEN [NoReq EXCEPT !.kind = "portfolios",
                                   !.resp = Ok(<<>>)]
                ELSE [NoReq EXCEPT !.kind = "portfolios", !.pc = "loop",
                                   !.data = portfolios, !.idx = 1,
                                   !.tickers = collect_tickers(portfolios, <<>>)]]
    /\ UNCHANGED <<now, _CACHE, file, call, lastPut>>

\* quotes.get(ticker, {}): the prefetched quote of a holding's ticker.
quote_of(ticker, tickers, got) ==
    IF ticker # None /\ InSeq(The(ticker), tickers)
    THEN got[CHOOSE n \in 1..Len(tickers) : tickers[n] = The(ticker)]
    ELSE NoData

\* pl / cost * 100.0, kept as the quotient it is.
Percent(pl, cost) == [num |-> pl * 100, den |-> cost]

\* Lines 177-206: one holding.
holding_out(h, q) ==
    LET position_cost == h.shares * h.avg_cost
        position_value == IF q.p # None THEN Some(h.shares * The(q.p)) ELSE None
        pl == IF position_value # None
              THEN Some(The(position_value) - position_cost) ELSE None
        pl_pct == IF position_value # None /\ position_cost > 0
                  THEN Some(Percent(The(pl), position_cost)) ELSE None
    IN  [ticker |-> h.ticker, shares |-> h.shares, avg_cost |-> h.avg_cost,
         price |-> q.p, market_value |-> position_value, pl |-> pl,
         pl_pct |-> pl_pct, interval |-> q.i, time_utc |-> q.ts,
         cost |-> position_cost]

\* Lines 173-174 and 190-191: the two running totals over the holdings.
RECURSIVE total_cost_all(_)
total_cost_all(outs) ==
    IF outs = <<>> THEN 0
    ELSE Head(outs).cost + total_cost_all(Tail(outs))

RECURSIVE total_cost(_)
total_cost(outs) ==
    IF outs = <<>> THEN 0
    ELSE (IF Head(outs).market_value # None THEN Head(outs).cost ELSE 0)
            + total_cost(Tail(outs))

RECURSIVE total_value(_)
total_value(outs) ==
    IF outs = <<>> THEN 0
    ELSE (IF Head(outs).market_value # None
          THEN The(Head(outs).market_value) ELSE 0)
            + total_value(Tail(outs))

\* Lines 208-224: the totals of a portfolio.
totals_falsy_pl(cost, value) ==
    [cost |-> cost, value |-> value, pl |-> value - cost,
     pl_pct |-> IF cost > 0 /\ value - cost # 0
                THEN Some(Percent(value - cost, cost)) ELSE None]

totals(cost, value) ==
    IF cost = 0 /\ value = 0
    THEN [cost |-> cost, value |-> value, pl |-> 0, pl_pct |-> None]
    ELSE [cost |-> cost, value |-> value, pl |-> value - cost,
          pl_pct |-> IF cost > 0
                     THEN Some(Percent(value - cost, cost)) ELSE None]

\* Lines 170-226: one portfolio of the payload.
portfolio_out(pf, tickers, got, t) ==
    LET outs == [n \in 1..Len(pf.holdings) |->
                    holding_out(pf.holdings[n],
                                quote_of(pf.holdings[n].ticker, tickers, got))]
    IN  [name |-> pf.name, currency |-> pf.currency,
         holdings |-> [n \in 1..Len(outs) |->
                        [f \in DOMAIN outs[n] \ {"cost"} |-> outs[n][f]]],
         totals |-> totals(total_cost(outs), total_value(outs)),
         last_updated_utc |-> t]

----------------------------------------------------------------------------
(* The loop over the tickers, common to both routes *)

\* Lines 132-133 and 165-166: the next call of get_price.
route_call(th) ==
    /\ req[th].pc = "loop"
    /\ req[th].idx <= Len(req[th].tickers)
    /\ call[th].pc = "idle"
    /\ get_price_begin(th, req[th].tickers[req[th].idx])
    /\ req' = [req EXCEPT ![th].called =
                    Append(@, req[th].tickers[req[th].idx])]

\* Lines 134-137 and 167, or lines 141-142 and 231-233 when get_price raised.
route_collect(th) ==
    /\ req[th].pc = "loop"
    /\ call[th].pc = "done"
    /\ call' = [call EXCEPT ![th] = IdleCall]
    /\ req' = [req EXCEPT ![th] =
            IF call[th].ret.kind = "raise"
            THEN [@ EXCEPT !.pc = "done",
                    !.resp = Failed(IF req[th].kind = "quote"
                                    THEN "api_quote_failed"
                                    ELSE "api_portfolios_failed")]
            ELSE [@ EXCEPT !.idx = @ + 1,
                           !.got = Append(@, call[th].ret.val)]]
    /\ UNCHANGED <<now, _CACHE, file, lastPut>>

\* Lines 139 and 169-229: the response.
route_finish(th) ==
    /\ req[th].pc = "loop"
    /\ req[th].idx > Len(req[th].tickers)
    /\ call[th].pc = "idle"
    /\ LET r == req[th]
           body == IF r.kind = "quote"
                   THEN [n \in 1..Len(r.tickers) |->
                            quote_entry(r.tickers[n], r.got[n])]
                   ELSE [n \in 1..Len(r.data) |->
                            portfolio_out(r.data[n], r.tickers, r.got, now)]
       IN  req' = [req EXCEPT ![th] =
                [r EXCEPT !.pc = "done",
                          !.resp = Ok(body)]]
    /\ UNCHANGED <<now, _CACHE, file, call, lastPut>>

----------------------------------------------------------------------------
(* The quote service on its own: one caller, any ticker, any time *)

CoreTickers == {"QQQ", "NVDA"}

NoFile == [kind |-> "missing", portfolios |-> <<>>]

\* A caller invokes get_price(ticker) once its previous call is over.
DirectCall(th) ==
    /\ req[th] = NoReq
    /\ call[th].pc \in {"idle", "done"}
    /\ \E ticker \in CoreTickers : get_price_begin(th, ticker)
    /\ UNCHANGED req

Init ==
    /\ now = 0
    /\ _CACHE = [s \in Symbols |-> None]
    /\ file = NoFile
    /\ call = [th \in Threads |-> IdleCall]
    /\ req = [th \in Threads |-> NoReq]
    /\ lastPut = [s \in Symbols |-> None]

Next ==
    \/ DirectCall(1)
    \/ get_price_hist(1)
    \/ get_price_snap(1)
    \/ Tick

Spec == Init /\ [][Next]_vars

----------------------------------------------------------------------------
(* Properties of the quote service, checked under Spec *)

Finished(th) == call[th].pc = "done"
Answers(th) == [n \in 1..Len(call[th].log) |-> call[th].log[n].ans.kind]

\* C1: get_price never raises: whatever the upstream answers, a finished call
\* has returned a triple, and the triple is (None, None, None) when no tier
\* yielded a price.
C1_NeverRaises ==
    \A th \in Threads :
        Finished(th) =>
            /\ call[th].ret.kind = "return"
            /\ (~call[th].hit
                /\ \A n \in 1..Len(call[th].log) :
                        Answers(th)[n] \notin {"series", "price"})
                    => call[th].ret.val = NoData

\* C2: a historical tier that raises (or sends a malformed frame) only fails
\* itself: the call goes on to query the next tier, and so ends by returning.
C2_RaiseFallsThrough ==
    \A th \in Threads :
        Finished(th) =>
            \A n \in 1..Len(call[th].log) :
                (Answers(th)[n] \in {"raise", "malformed"}
                    /\ call[th].log[n].tier # "fast_info")
                    => /\ Len(call[th].log) > n
                       /\ call[th].ret.kind = "return"

\* C3: a ticker whose last put was at t0 is read back, field by field, as long
\* as now - t0 < 10, and is absent from now - t0 = 10 on, exactly like a
\* ticker that was never put.
C3_CacheTTL ==
    \A s \in Symbols :
        LET g == _cache_get(_CACHE, s, now)
        IN  IF lastPut[s] = None THEN g = None
            ELSE IF now - The(lastPut[s]).t < 10
            THEN /\ g # None
                 /\ The(g).p = The(lastPut[s]).p
                 /\ The(g).i = The(lastPut[s]).i
                 /\ The(g).ts = The(lastPut[s]).ts
            ELSE g = None

\* One ticker was put less than 10 seconds ago (and not in this instant),
\* another one 10 seconds ago or more.
C3_Witness ==
    \E s, u \in Symbols :
        /\ lastPut[s] # None /\ lastPut[u] # None
        /\ now - The(lastPut[s]).t > 0 /\ now - The(lastPut[s]).t < 10
        /\ now - The(lastPut[u]).t >= 10

\* C4: a call that finds a no-data entry younger than 10 seconds returns
\* (None, None, None) without any upstream query; a call that finds a no-data
\* entry queries the upstream only when the entry is 10 seconds old or more.
C4_NoDataCached ==
    \A th \in Threads :
        LET me == call[th]
        IN  (me.pc # "idle" /\ me.c0 # None /\ The(me.c0).p = None) =>
                IF me.t0 - The(me.c0).t < 10
                THEN /\ me.pc = "done"
                     /\ me.ret = Return(NoData)
                     /\ me.log = <<>>
                ELSE ~me.hit /\ (me.pc = "done" => me.log # <<>>)

\* A second call on a ticker that resolved to no data, 5 seconds later.
C4_Witness ==
    \E th \in Threads :
        /\ Finished(th) /\ call[th].hit
        /\ The(call[th].c0).p = None
        /\ call[th].t0 > The(call[th].c0).t

\* C5: on a miss the queries go out in the order 1m, 1h, 1d, fast_info; a
\* historical tier that sends a series ends the call, which returns the close
\* of the last row under that tier's interval, so that no later query is made
\* (one query in all when the first tier has a series).
C5_TierOrder ==
    \A th \in Threads :
        LET me == call[th]
            order == <<"1m", "1h", "1d", "fast_info">>
        IN  /\ Len(me.log) <= 4
            /\ \A n \in 1..Len(me.log) : me.log[n].tier = order[n]
            /\ me.pc = "hist" => me.k = Len(me.log) + 1
            /\ me.pc = "snap" => Len(me.log) = 3
            /\ \A n \in 1..Len(me.log) :
                 me.log[n].ans.kind = "series" =>
                    /\ n = Len(me.log)
                    /\ me.pc = "done"
                    /\ me.ret.kind = "return"
                    /\ me.ret.val.p = Some(The(me.log[n].ans.last).close)
                    /\ me.ret.val.i = Some(order[n])

\* The second tier answered with a series after the first had nothing.
C5_Witness ==
    \E th \in Threads :
        /\ Finished(th)
        /\ Answers(th) = <<"empty", "series">>

\* C6: after three empty historical tiers, a snapshot price P gives
\* (P, "fast_info", the UTC time of the call's end), and a snapshot without a
\* price, or one that raises, gives (None, None, None).
C6_Fallback ==
    \A th \in Threads :
        LET me == call[th]
        IN  (Finished(th) /\ Len(me.log) = 4
                /\ \A n \in 1..3 : Answers(th)[n] = "empty") =>
                IF Answers(th)[4] = "price"
                THEN me.ret = Return(
                        [p |-> Some(The(me.log[4].ans.last).close),
                         i |-> Some("fast_info"),
                         ts |-> Some([clock |-> me.t_ret, zone |-> 0])])
                ELSE me.ret = Return(NoData)

\* The snapshot endpoint had a price after three empty tiers, at a time
\* other than 0.
C6_Witness ==
    \E th \in Threads :
        /\ Finished(th)
        /\ Answers(th) = <<"empty", "empty", "empty", "price">>
        /\ call[th].t_ret > 0

\* The snapshot endpoint raised after three empty tiers.
C6_WitnessRaise ==
    \E th \in Threads :
        /\ Finished(th)
        /\ Answers(th) = <<"empty", "empty", "empty", "raise">>

\* C7: a call on a miss or a stale entry ends with the ticker's entry equal
\* to the triple it returned, stamped with the time of its end, whatever the
\* entry was before.
C7_WriteBack ==
    \A th \in Threads :
        (Finished(th) /\ ~call[th].hit) =>
            /\ call[th].ret.kind = "return"
            /\ _CACHE[call[th].ticker] =
                    Some([p |-> call[th].ret.val.p, i |-> call[th].ret.val.i,
                          ts |-> call[th].ret.val.ts, t |-> call[th].t_ret])


----------------------------------------------------------------------------
(* Properties of the cache over time, checked under Spec *)

\* The tickers a running call of get_price may write: those of the calls that
\* are past their lookup and not over.
Fetching == {call[th].ticker : th \in {t \in Threads : call[t].pc \in {"hist", "snap"}}}

\* C13: no step removes an entry, stale or not; a step changes at most the
\* entry of the ticker of a running call; and the one entry of a ticker is the
\* last one put for it.
C13_CacheLifecycle ==
    [][\A s \in Symbols :
          /\ _CACHE[s] # None => _CACHE'[s] # None
          /\ _CACHE'[s] # _CACHE[s] => s \in Fetching
          /\ _CACHE'[s] = lastPut'[s]
          /\ Len(_CACHE'[s]) <= 1]_vars

\* Two tickers have an entry, one of them stale, while a call on the other
\* has just written its entry.
C13_Witness ==
    \E s, u \in Symbols :
        /\ s # u
        /\ _CACHE[s] # None /\ now - The(_CACHE[s]).t >= 10
        /\ _CACHE[u] # None /\ The(_CACHE[u]).t = now
        /\ \E th \in Threads : Finished(th) /\ ~call[th].hit /\ call[th].ticker = u

\* C14: a call that hits found an entry younger than 10 seconds, returns its
\* three fields and has made no upstream query; the step of a hit changes
\* nothing in the cache, so that every entry keeps the time of the fetch that
\* wrote it and a call made 10 seconds or more after that fetch misses.
C14_HitReadOnly ==
    /\ [](\A th \in Threads :
            LET me == call[th]
            IN  /\ me.hit =>
                    /\ me.pc = "done"
                    /\ me.log = <<>>
                    /\ me.c0 # None
                    /\ me.t0 - The(me.c0).t < 10
                    /\ me.ret = Return([p |-> The(me.c0).p, i |-> The(me.c0).i,
                                        ts |-> The(me.c0).ts])
                /\ (me.pc # "idle" /\ me.c0 # None /\ me.t0 - The(me.c0).t >= 10)
                    => ~me.hit)
    /\ [](\A s \in Symbols : _CACHE[s] = lastPut[s])
    /\ [][\A th \in Threads :
            (call'[th] # call[th] /\ call'[th].hit) => _CACHE' = _CACHE]_vars

\* A call hit a priced entry written 5 seconds before it.
C14_Witness ==
    \E th \in Threads :
        /\ Finished(th) /\ call[th].hit
        /\ The(call[th].c0).p # None
        /\ call[th].t0 = The(call[th].c0).t + 5

----------------------------------------------------------------------------
(* Two threads calling get_price at once (app.run serves each request in a *)
(* thread of its own)                                                      *)

ConcTickers == {"QQQ"}

\* Each thread is a caller of its own, invoking get_price on the same ticker.
ConcCall(th) ==
    /\ req[th] = NoReq
    /\ call[th].pc \in {"idle", "done"}
    /\ \E ticker \in ConcTickers : get_price_begin(th, ticker)
    /\ UNCHANGED req

NextConc ==
    \/ \E th \in Threads :
        \/ ConcCall(th)
        \/ get_price_hist(th)
        \/ get_price_snap(th)
    \/ Tick

SpecConc == Init /\ [][NextConc]_vars

\* The entry of ticker s is absent or stale for a lookup at time t.
Stale(c, t) == c = None \/ t - The(c).t >= 10

\* C15: nothing holds a call back while another thread fetches the same
\* ticker; a call whose lookup finds the entry absent or stale misses and
\* makes its own upstream queries, whatever the other thread is doing; and
\* the entry of a ticker is the one of the put that ran last.
C15_NoLockNoCoalescing ==
    /\ \A th \in Threads :
            call[th].pc \in {"idle", "done"} => ENABLED ConcCall(th)
    /\ \A th \in Threads :
            LET me == call[th]
            IN  /\ (me.pc # "idle" /\ Stale(me.c0, me.t0)) => ~me.hit
                /\ (me.pc = "done" /\ ~me.hit) => me.log # <<>>
                /\ (me.pc = "snap" \/ (me.pc = "hist" /\ me.k > 1)) => me.log # <<>>
    /\ \A s \in Symbols : _CACHE[s] = lastPut[s]

\* Both threads missed on the same ticker with no entry, each fetched and put
\* a price of its own, and the cache holds the price of thread 1 only.
C15_Witness ==
    /\ Finished(1) /\ Finished(2)
    /\ call[1].ticker = call[2].ticker
    /\ ~call[1].hit /\ ~call[2].hit
    /\ call[1].c0 = None /\ call[2].c0 = None
    /\ call[1].ret.kind = "return" /\ call[2].ret.kind = "return"
    /\ call[1].ret.val.p # None /\ call[2].ret.val.p # None
    /\ call[1].ret.val.p # call[2].ret.val.p
    /\ The(_CACHE[call[1].ticker]).p = call[1].ret.val.p

\* Both threads are between their lookup and their put on the same ticker.
C15_WitnessInFlight ==
    /\ call[1].pc \in {"hist", "snap"} /\ call[2].pc \in {"hist", "snap"}
    /\ call[1].ticker = call[2].ticker

----------------------------------------------------------------------------
(* The two routes, served one request at a time *)

InitApi ==
    /\ now = 0
    /\ _CACHE = [s \in Symbols |-> None]
    /\ file \in Files
    /\ call = [th \in Threads |-> IdleCall]
    /\ req = [th \in Threads |-> NoReq]
    /\ lastPut = [s \in Symbols |-> None]

NextApi ==
    \/ api_quote_start(1)
    \/ api_portfolios_start(1)
    \/ route_call(1)
    \/ get_price_hist(1)
    \/ get_price_snap(1)
    \/ route_collect(1)
    \/ route_finish(1)
    \/ Tick

SpecApi == InitApi /\ [][NextApi]_vars

----------------------------------------------------------------------------
(* Properties of the routes, checked under SpecApi *)

Served(th, kind) == req[th].kind = kind /\ req[th].pc = "done"

\* No portfolios are configured: there is no file, or its list is empty.
Unconfigured == file.kind = "missing" \/ (file.kind = "data" /\ file.portfolios = <<>>)

NoOverride(arg) == arg = None \/ The(arg) = <<"">>

\* C8: with no portfolios configured, /api/quote without an override and
\* /api/portfolios answer 200 with an empty list.
C8_EmptyWhenUnconfigured ==
    \A th \in Threads :
        (Unconfigured
            /\ \/ Served(th, "portfolios")
               \/ Served(th, "quote") /\ NoOverride(req[th].arg))
            => req[th].resp = Ok(<<>>)

RECURSIVE SumTo(_, _)
SumTo(terms, n) == IF n = 0 THEN 0 ELSE terms[n] + SumTo(terms, n - 1)

\* C9: a holding without a price has no market value, no P/L and no P/L%, and
\* the totals of its portfolio are the sums over the holdings with a price.
C9_PartialFailure ==
    \A th \in Threads :
        (Served(th, "portfolios") /\ req[th].resp.status = 200) =>
            \A n \in 1..Len(req[th].resp.body) :
                LET hs == req[th].data[n].holdings
                    out == req[th].resp.body[n]
                    priced == {j \in 1..Len(hs) : out.holdings[j].price # None}
                IN  /\ Len(out.holdings) = Len(hs)
                    /\ \A j \in 1..Len(hs) :
                         j \notin priced =>
                            /\ out.holdings[j].market_value = None
                            /\ out.holdings[j].pl = None
                            /\ out.holdings[j].pl_pct = None
                    /\ out.totals.cost =
                         SumTo([j \in 1..Len(hs) |->
                                  IF j \in priced
                                  THEN hs[j].shares * hs[j].avg_cost ELSE 0],
                               Len(hs))
                    /\ out.totals.value =
                         SumTo([j \in 1..Len(hs) |->
                                  IF j \in priced
                                  THEN hs[j].shares * The(out.holdings[j].price)
                                  ELSE 0],
                               Len(hs))

\* A portfolio was served with a priced holding and one, of non-zero cost,
\* for which get_price had no data.
C9_Witness ==
    \E th \in Threads :
        /\ Served(th, "portfolios") /\ req[th].resp.status = 200
        /\ \E n \in 1..Len(req[th].resp.body) :
            LET hs == req[th].data[n].holdings
                out == req[th].resp.body[n]
            IN  \E j, k \in 1..Len(hs) :
                    /\ out.holdings[j].price = None
                    /\ hs[j].ticker # None
                    /\ hs[j].shares * hs[j].avg_cost > 0
                    /\ out.holdings[k].price # None

\* C10: with every holding priced, cost = sum(shares * avg_cost), value =
\* sum(shares * price), P/L = value - cost and, when cost > 0, P/L% =
\* P/L / cost * 100; 10 @ 420 and 2 @ 950 priced 430 and 900 give 6100, 6100,
\* 0 and the number 0.0 (amounts in cents below).
C10_Aggregation ==
    \A th \in Threads :
        (Served(th, "portfolios") /\ req[th].resp.status = 200) =>
            \A n \in 1..Len(req[th].resp.body) :
                LET hs == req[th].data[n].holdings
                    out == req[th].resp.body[n]
                    price(j) == The(out.holdings[j].price)
                    cost == SumTo([j \in 1..Len(hs) |->
                                hs[j].shares * hs[j].avg_cost], Len(hs))
                    value == SumTo([j \in 1..Len(hs) |->
                                hs[j].shares * price(j)], Len(hs))
                IN  (\A j \in 1..Len(hs) : out.holdings[j].price # None) =>
                        /\ out.totals.cost = cost
                        /\ out.totals.value = value
                        /\ out.totals.pl = value - cost
                        /\ cost > 0 => out.totals.pl_pct =
                              Some([num |-> (value - cost) * 100, den |-> cost])
                        /\ (/\ Len(hs) = 2
                            /\ hs[1].shares = 10 /\ hs[1].avg_cost = 42000
                            /\ hs[2].shares = 2 /\ hs[2].avg_cost = 95000
                            /\ price(1) = 43000 /\ price(2) = 90000)
                            => out.totals =
                                [cost |-> 610000, value |-> 610000, pl |-> 0,
                                 pl_pct |-> Some([num |-> 0, den |-> 610000])]

\* The portfolio 10 @ 420, 2 @ 950 was served with the prices 430 and 900.
C10_Witness ==
    \E th \in Threads :
        /\ Served(th, "portfolios") /\ req[th].resp.status = 200
        /\ LET hs == req[th].data[1].holdings
               out == req[th].resp.body[1]
           IN  /\ Len(hs) = 2
               /\ hs[1].shares = 10 /\ hs[1].avg_cost = 42000
               /\ hs[2].shares = 2 /\ hs[2].avg_cost = 95000
               /\ out.holdings[1].price = Some(43000)
               /\ out.holdings[2].price = Some(90000)

\* The calls of get_price(s) made by the request of thread th.
Calls(th, s) == Cardinality({n \in 1..Len(req[th].called) : req[th].called[n] = s})

\* C11: a batch request that was answered has called get_price exactly once
\* for each distinct ticker of its list, be the list taken from the
\* configuration or from the "tickers" argument, duplicates in the input
\* included.
C11_OncePerTicker ==
    \A th \in Threads :
        ((Served(th, "quote") \/ Served(th, "portfolios"))
            /\ req[th].resp.status = 200) =>
            \A n \in 1..Len(req[th].tickers) :
                Calls(th, req[th].tickers[n]) = 1

\* The tickers of the configured holdings as they are met, portfolio by
\* portfolio, a missing ticker read as blank.
RECURSIVE FlatTickers(_)
FlatTickers(pfs) ==
    IF pfs = <<>> THEN <<>>
    ELSE [n \in 1..Len(Head(pfs).holdings) |->
            IF Head(pfs).holdings[n].ticker = None THEN ""
            ELSE The(Head(pfs).holdings[n].ticker)]
         \o FlatTickers(Tail(pfs))

\* The non-blank elements of seq[1..n], each at its first occurrence.
RECURSIVE KeepFirst(_, _)
KeepFirst(seq, n) ==
    IF n = 0 THEN <<>>
    ELSE IF seq[n] # "" /\ \A m \in 1..(n - 1) : seq[m] # seq[n]
         THEN Append(KeepFirst(seq, n - 1), seq[n])
         ELSE KeepFirst(seq, n - 1)

\* The order in which the request of thread th enumerates its tickers.
Enumerated(th) ==
    IF req[th].kind = "quote" /\ ~NoOverride(req[th].arg)
    THEN SelectSeq([n \in 1..Len(The(req[th].arg)) |-> strip(The(req[th].arg)[n])],
                   LAMBDA x : x # "")
    ELSE LET flat == FlatTickers(load_portfolios(file).portfolios)
         IN  KeepFirst(flat, Len(flat))

\* C12: a batch request calls get_price for its tickers one at a time, in the
\* order of their enumeration, and the 200 response of /api/quote has one
\* entry per enumerated ticker, in that order, priced or not.
C12_BatchOrder ==
    \A th \in Threads :
        req[th].kind \in {"quote", "portfolios"} =>
            LET r == req[th]
                enum == Enumerated(th)
            IN  /\ Len(r.called) <= Len(enum)
                /\ \A n \in 1..Len(r.called) : r.called[n] = enum[n]
                /\ Len(r.called) - Len(r.got) \in {0, 1}
                /\ (r.pc = "loop" /\ Len(r.called) - Len(r.got) = 1)
                      => call[th].pc # "idle"
                /\ (r.kind = "quote" /\ r.pc = "done") =>
                      IF r.resp.status = 200
                      THEN /\ Len(r.resp.body) = Len(enum)
                           /\ \A n \in 1..Len(enum) :
                                r.resp.body[n].ticker = enum[n]
                      ELSE r.resp.body = <<>>

\* /api/quote?tickers=QQQ, NVDA was answered with a price for QQQ and no data
\* for NVDA.
C12_Witness ==
    \E th \in Threads :
        /\ Served(th, "quote") /\ req[th].resp.status = 200
        /\ req[th].arg = Some(<<"QQQ", " NVDA ">>)
        /\ "price" \in DOMAIN req[th].resp.body[1]
        /\ "error" \in DOMAIN req[th].resp.body[2]

====
